---- MODULE Spec2Model ----
(***************************************************************************)
(* Minesweeper (kindjie/minesweeper): the game state machine MineSweeper   *)
(* and its board BoardState, from src/minesweeper.py.                      *)
(*                                                                         *)
(* A position is the pair <<x, y>>.  A cell holds the integer the source   *)
(* stores in BoardState._rows: 0 (EMPTY), 1..8 (adjacent-mine counts),     *)
(* 32 (HIDDEN), 64 (MINE), 128 (FLAG).  A command is the record            *)
(* [type, x, y] of the namedtuple Command; its type is the integer bit     *)
(* mask of CmdType.  Titles, footers, messages and the wall clock are      *)
(* strings for the renderer and are not part of the state modelled here.   *)
(***************************************************************************)
EXTENDS Integers, FiniteSets, Sequences, TLC

\* ------------------------------------------------------------------ bounds
\* The width of the board MineSweeper(width, height, difficulty) is
\* constructed with; its height is the smallest one BoardState accepts.
Width == 3
\* The harder of the two difficulties a game is constructed with.
HardDifficulty == 16
\* The number of update and reset calls a run is followed for.
MaxCalls == 3
\* The number of BoardState method calls a board on its own is followed for.
MaxBoardCalls == 2

\* ------------------------------------------------------- program constants
\* BoardState cell values.
EMPTY == 0
HIDDEN == 32
MINE == 64
FLAG == 128

\* CmdType bit masks.
CmdType_NONE == 0
CmdType_TOGGLE_FLAG == 2
CmdType_REVEAL == 8
CmdType_LEFT == 32
CmdType_RIGHT == 64
CmdType_UP == 128
CmdType_DOWN == 256

\* BoardState.__init__ rejects width <= 1 and height <= 1: the smallest side.
MinSide == 2
Height == MinSide

\* MineSweeper.DIFFICULTY_STEP = 0.025, in thousandths.
DIFFICULTY_STEP_MILLI == 25
\* The difficulty main() uses when none is given.
DefaultDifficulty == 3

\* The largest count a revealed cell shows: MineSweeperAI takes any greater
\* value for a cell that is not revealed.
MaxCount == 8
\* MineSweeperAI.NUM_GAMES
NUM_GAMES == 20

\* Python's None: what BoardState.get returns out of bounds, and the command
\* update may be passed instead of a Command.
None == -1

\* The values of game.State (the module game is not part of the sources at
\* hand): four distinct states, GAME_OVER covering the two end states.
State_STARTING == "STARTING"
State_ACTIVE == "ACTIVE"
State_VICTORY == "VICTORY"
State_DEFEAT == "DEFEAT"
State_GAME_OVER == {State_VICTORY, State_DEFEAT}

\* ------------------------------------------------------------------- state
VARIABLES
    _state,              \* MineSweeper._state
    _cursor_pos,         \* MineSweeper._cursor_pos
    _num_flags,          \* MineSweeper._num_flags
    _num_mines_flagged,  \* MineSweeper._num_mines_flagged
    _num_mines,          \* BoardState._num_mines
    _mines,              \* BoardState._mines
    _rows,               \* BoardState._rows, as a function of <<x, y>>
    calls,               \* the update and reset calls made since construction
    last_call,           \* what the last call was, and for update the path it took
    reset_from,          \* the state the call just made reset the game from, if it was a reset
    cmd,                 \* the command handed to update, where a run records it
    pc,                  \* where the autoplay loop stands: "next", "update", or the
                         \* exception that ended it
    num_games            \* MineSweeper.num_games, which MineSweeperAI.next reads

vars ==
    <<_state, _cursor_pos, _num_flags, _num_mines_flagged, _num_mines, _mines, _rows,
      calls, last_call, reset_from, cmd, pc, num_games>>

\* The game as one value, for the operators below.
Game ==
    [state |-> _state, cursor_pos |-> _cursor_pos, num_flags |-> _num_flags,
     num_mines_flagged |-> _num_mines_flagged, num_mines |-> _num_mines,
     mines |-> _mines, rows |-> _rows]

\* itertools.product(xrange(width), xrange(height)): every board position.
Positions == (0 .. Width - 1) \X (0 .. Height - 1)

Max(a, b) == IF a >= b THEN a ELSE b
Min(a, b) == IF a <= b THEN a ELSE b

\* `mask & bit` is non-zero, for a single-bit value `bit`.
HasBit(mask, bit) == (mask \div bit) % 2 = 1

\* ------------------------------------------------------------- BoardState
is_in_bounds(x, y) == 0 <= x /\ x < Width /\ 0 <= y /\ y < Height

get(rows, x, y) == IF is_in_bounds(x, y) THEN rows[<<x, y>>] ELSE None

set(rows, x, y, value) ==
    IF is_in_bounds(x, y) THEN [rows EXCEPT ![<<x, y>>] = value] ELSE rows

\* clamp_pos without the lower limit 0.
clamp_pos_upper_only(pos) == <<Min(Width - 1, pos[1]), Min(Height - 1, pos[2])>>

clamp_pos(pos) ==
    <<Min(Width - 1, Max(pos[1], 0)), Min(Height - 1, Max(pos[2], 0))>>

\* _adjacent_pos without the diagonal neighbours.
_adjacent_pos_orthogonal(x, y) ==
    {<<x, y>>, <<x - 1, y>>, <<x + 1, y>>, <<x, y - 1>>, <<x, y + 1>>}

_adjacent_pos(x, y) == {x - 1, x, x + 1} \X {y - 1, y, y + 1}

_count_adjacent_mines(mines, x, y) == Cardinality(_adjacent_pos(x, y) \cap mines)

\* num_mines as BoardState.__init__ computes it from the density
\* DIFFICULTY_STEP * difficulty.
NumMinesFor(difficulty) ==
    Max(1, (((Width * Height) - 1) * difficulty * DIFFICULTY_STEP_MILLI) \div 1000)

\* The sets sample(all positions, num_mines) can return.
\* _create_mines drawing with replacement: up to num_mines distinct positions.
_create_mines_with_replacement(num_mines) ==
    {S \in SUBSET Positions : 1 <= Cardinality(S) /\ Cardinality(S) <= num_mines}

_create_mines(num_mines) == {S \in SUBSET Positions : Cardinality(S) = num_mines}

\* The order in which a Python set is iterated is not specified; one order is
\* fixed here (the flood's result does not depend on it).
RECURSIVE SetToSeq(_)
SetToSeq(S) ==
    IF S = {} THEN <<>>
    ELSE LET p == CHOOSE q \in S : TRUE IN <<p>> \o SetToSeq(S \ {p})

\* The while loop of reveal_from with its inner function fill: to_visit is the
\* deque, popped at its right end.
RECURSIVE reveal_loop(_, _, _, _)
reveal_loop(rows, mines, to_visit, visited) ==
    IF Len(to_visit) = 0 THEN rows
    ELSE LET pos == to_visit[Len(to_visit)]
             rest == SubSeq(to_visit, 1, Len(to_visit) - 1)
             num_adjacent_mines == _count_adjacent_mines(mines, pos[1], pos[2])
         IN  IF ~is_in_bounds(pos[1], pos[2]) \/ pos \in visited
             THEN reveal_loop(rows, mines, rest, visited)
             ELSE IF num_adjacent_mines > 0
             THEN reveal_loop([rows EXCEPT ![pos] = num_adjacent_mines], mines,
                              rest, visited \cup {pos})
             ELSE reveal_loop([rows EXCEPT ![pos] = EMPTY], mines,
                              rest \o SetToSeq(_adjacent_pos(pos[1], pos[2])),
                              visited \cup {pos})

reveal_from(rows, mines, x, y) == reveal_loop(rows, mines, <<(<<x, y>>)>>, {})

\* reveal_fills adding a position to visited only when its count is zero.
RECURSIVE reveal_fills_marks_empty_only(_, _, _)
reveal_fills_marks_empty_only(mines, to_visit, visited) ==
    IF Len(to_visit) = 0 THEN <<>>
    ELSE LET pos == to_visit[Len(to_visit)]
             rest == SubSeq(to_visit, 1, Len(to_visit) - 1)
             num_adjacent_mines == _count_adjacent_mines(mines, pos[1], pos[2])
         IN  IF ~is_in_bounds(pos[1], pos[2]) \/ pos \in visited
             THEN reveal_fills_marks_empty_only(mines, rest, visited)
             ELSE IF num_adjacent_mines > 0
             THEN <<pos>> \o reveal_fills_marks_empty_only(mines, rest, visited)
             ELSE <<pos>> \o reveal_fills_marks_empty_only(
                                 mines, rest \o SetToSeq(_adjacent_pos(pos[1], pos[2])),
                                 visited \cup {pos})

\* The same loop, seen as the positions fill gets past its guard for (the
\* positions it writes), in the order it reaches them.
RECURSIVE reveal_fills(_, _, _)
reveal_fills(mines, to_visit, visited) ==
    IF Len(to_visit) = 0 THEN <<>>
    ELSE LET pos == to_visit[Len(to_visit)]
             rest == SubSeq(to_visit, 1, Len(to_visit) - 1)
             num_adjacent_mines == _count_adjacent_mines(mines, pos[1], pos[2])
         IN  IF ~is_in_bounds(pos[1], pos[2]) \/ pos \in visited
             THEN reveal_fills(mines, rest, visited)
             ELSE IF num_adjacent_mines > 0
             THEN <<pos>> \o reveal_fills(mines, rest, visited \cup {pos})
             ELSE <<pos>> \o reveal_fills(mines,
                                          rest \o SetToSeq(_adjacent_pos(pos[1], pos[2])),
                                          visited \cup {pos})

\* reveal_mines writing MINE only where the mine is still Hidden.
reveal_mines_hidden_only(rows, mines) ==
    [p \in Positions |-> IF p \in mines /\ rows[p] = HIDDEN THEN MINE ELSE rows[p]]

reveal_mines(rows, mines) == [p \in Positions |-> IF p \in mines THEN MINE ELSE rows[p]]

\* ------------------------------------------------------------- MineSweeper
game_over(g) == g.state \in State_GAME_OVER

_start(g) == [g EXCEPT !.state = State_ACTIVE]

_end(g, is_victory) ==
    IF is_victory
    THEN [g EXCEPT !.state = State_VICTORY]
    ELSE [g EXCEPT !.rows = reveal_mines(g.rows, g.mines), !.state = State_DEFEAT]

\* Command.pos
CommandPos(command) == <<command.x, command.y>>

\* _handle_movement adding the deltas to the live cursor.
_handle_movement_from_cursor(g, command) ==
    LET dy1 == IF HasBit(command.type, CmdType_DOWN) THEN 1 ELSE 0
        dx1 == IF HasBit(command.type, CmdType_LEFT) THEN -1 ELSE 0
        dx2 == IF HasBit(command.type, CmdType_RIGHT) THEN 1 ELSE 0
        dy2 == IF HasBit(command.type, CmdType_UP) THEN -1 ELSE 0
        new_cursor_pos == <<g.cursor_pos[1] + dx1 + dx2, g.cursor_pos[2] + dy1 + dy2>>
    IN  [g EXCEPT !.cursor_pos = clamp_pos(new_cursor_pos)]

_handle_movement(g, command) ==
    LET dy1 == IF HasBit(command.type, CmdType_DOWN) THEN 1 ELSE 0
        dx1 == IF HasBit(command.type, CmdType_LEFT) THEN -1 ELSE 0
        dx2 == IF HasBit(command.type, CmdType_RIGHT) THEN 1 ELSE 0
        dy2 == IF HasBit(command.type, CmdType_UP) THEN -1 ELSE 0
        new_cursor_pos == <<command.x + dx1 + dx2, command.y + dy1 + dy2>>
    IN  [g EXCEPT !.cursor_pos = clamp_pos(new_cursor_pos)]

\* _handle_reveal looking for the mine at the command's position, not at the
\* cursor.
_handle_reveal_mine_at_command_pos(g, command) ==
    IF ~HasBit(command.type, CmdType_REVEAL) THEN g
    ELSE IF get(g.rows, command.x, command.y) # HIDDEN THEN g
    ELSE IF CommandPos(command) \in g.mines THEN _end(g, FALSE)
    ELSE [g EXCEPT !.rows = reveal_from(g.rows, g.mines, g.cursor_pos[1], g.cursor_pos[2])]

_handle_reveal(g, command) ==
    IF ~HasBit(command.type, CmdType_REVEAL) THEN g
    ELSE IF get(g.rows, command.x, command.y) # HIDDEN THEN g
    ELSE IF g.cursor_pos \in g.mines THEN _end(g, FALSE)
    ELSE [g EXCEPT !.rows = reveal_from(g.rows, g.mines, g.cursor_pos[1], g.cursor_pos[2])]

\* _all_mines_found comparing the number of flags placed, not the number of
\* mines flagged, with the mine count.
_all_mines_found_by_flags(g) ==
    LET all_flagged == g.num_flags = g.num_mines
        no_empty_flagged == g.num_mines_flagged <= g.num_mines
    IN  all_flagged /\ no_empty_flagged

_all_mines_found(g) ==
    LET all_flagged == g.num_mines_flagged = g.num_mines
        no_empty_flagged == g.num_mines_flagged <= g.num_mines
    IN  all_flagged /\ no_empty_flagged

\* _handle_toggle_flag whose unflag branch leaves _num_mines_flagged alone.
_handle_toggle_flag_unflag_keeps_count(g, command) ==
    IF ~HasBit(command.type, CmdType_TOGGLE_FLAG) THEN g
    ELSE IF get(g.rows, g.cursor_pos[1], g.cursor_pos[2]) = HIDDEN
    THEN LET g1 == [g EXCEPT !.rows = set(g.rows, g.cursor_pos[1], g.cursor_pos[2], FLAG),
                             !.num_flags = g.num_flags + 1]
             g2 == IF CommandPos(command) \in g.mines
                   THEN [g1 EXCEPT !.num_mines_flagged = g1.num_mines_flagged + 1]
                   ELSE g1
         IN  IF _all_mines_found(g2) THEN _end(g2, TRUE) ELSE g2
    ELSE [g EXCEPT !.rows[g.cursor_pos] = HIDDEN, !.num_flags = g.num_flags - 1]

_handle_toggle_flag(g, command) ==
    IF ~HasBit(command.type, CmdType_TOGGLE_FLAG) THEN g
    ELSE IF get(g.rows, g.cursor_pos[1], g.cursor_pos[2]) = HIDDEN
    THEN LET g1 == [g EXCEPT !.rows = set(g.rows, g.cursor_pos[1], g.cursor_pos[2], FLAG),
                             !.num_flags = g.num_flags + 1]
             g2 == IF CommandPos(command) \in g.mines
                   THEN [g1 EXCEPT !.num_mines_flagged = g1.num_mines_flagged + 1]
                   ELSE g1
         IN  IF _all_mines_found(g2) THEN _end(g2, TRUE) ELSE g2
    ELSE LET g1 == [g EXCEPT !.rows[g.cursor_pos] = HIDDEN,
                             !.num_flags = g.num_flags - 1]
         IN  IF CommandPos(command) \in g.mines
             THEN [g1 EXCEPT !.num_mines_flagged = g1.num_mines_flagged - 1]
             ELSE g1

\* update(command); NoCommand stands for update(None).
NoCommand == [type |-> None, x |-> 0, y |-> 0]

\* update without the game_over test of its early return.
update_after_game_over(g, command) ==
    IF g.state = State_STARTING THEN _start(g)
    ELSE IF command = NoCommand \/ command.type = CmdType_NONE THEN g
    ELSE _handle_toggle_flag(_handle_reveal(_handle_movement(g, command), command), command)

\* update without the return after _start(): the first command is handled too.
update_start_falls_through(g, command) ==
    LET g1 == IF g.state = State_STARTING THEN _start(g) ELSE g
    IN  IF command = NoCommand \/ command.type = CmdType_NONE \/ game_over(g1) THEN g1
        ELSE _handle_toggle_flag(_handle_reveal(_handle_movement(g1, command), command), command)

update(g, command) ==
    IF g.state = State_STARTING THEN _start(g)
    ELSE IF command = NoCommand \/ command.type = CmdType_NONE \/ game_over(g) THEN g
    ELSE _handle_toggle_flag(_handle_reveal(_handle_movement(g, command), command), command)

\* The path update takes: the start tick, the early return, or the handlers
\* (named by the handler the command's type selects besides the movement).
update_path(g, command) ==
    IF g.state = State_STARTING THEN "start"
    ELSE IF command = NoCommand \/ command.type = CmdType_NONE \/ game_over(g) THEN "ignored"
    ELSE IF HasBit(command.type, CmdType_REVEAL) THEN "reveal"
    ELSE IF HasBit(command.type, CmdType_TOGGLE_FLAG) THEN "toggle"
    ELSE "move"

\* reset leaving _num_mines_flagged as the last game left it.
reset_keeps_mines_flagged(g, mines) ==
    [g EXCEPT !.state = State_STARTING, !.cursor_pos = <<0, 0>>, !.num_flags = 0,
              !.mines = mines, !.rows = [p \in Positions |-> HIDDEN]]

\* MineSweeper.reset with the BoardState.reset it calls; mines is the sample drawn.
reset(g, mines) ==
    [g EXCEPT !.state = State_STARTING, !.cursor_pos = <<0, 0>>, !.num_flags = 0,
              !.num_mines_flagged = 0, !.mines = mines,
              !.rows = [p \in Positions |-> HIDDEN]]

\* ----------------------------------------------------------- MineSweeperAI
\* The attributes MineSweeperAI reads that the MineSweeper and BoardState at
\* hand do not define: the flags placed, and the cells not yet revealed
\* (Hidden or Flagged), so that num_hidden - num_flags is the number of cells
\* a mine may still be found in.
num_flags(g) == g.num_flags
num_hidden(rows) == Cardinality({p \in Positions : rows[p] \in {HIDDEN, FLAG}})

\* for x, y, state in board: row by row, each row from left to right.
BoardCells == [i \in 1 .. Width * Height |-> <<(i - 1) % Width, (i - 1) \div Width>>]

hidden_cells(rows) == SelectSeq(BoardCells, LAMBDA p : rows[p] = HIDDEN)

_count_neighbours_state(rows, x, y, state) ==
    Cardinality({a \in _adjacent_pos(x, y) : get(rows, a[1], a[2]) = state})

_is_definite_safe(rows, x, y) ==
    \E a \in _adjacent_pos(x, y) :
        _count_neighbours_state(rows, a[1], a[2], FLAG) = get(rows, a[1], a[2])

\* _is_definite_mine forgetting that the cell is itself a hidden neighbour
\* of its neighbour.
_is_definite_mine_not_counting_itself(rows, x, y) ==
    \E n \in _adjacent_pos(x, y) :
        LET num_flagged_neighbours_of_n == _count_neighbours_state(rows, n[1], n[2], FLAG)
            num_hidden_neighbours_of_n == _count_neighbours_state(rows, n[1], n[2], HIDDEN)
            state == get(rows, n[1], n[2])
        IN  /\ state # None
            /\ state <= MaxCount
            /\ num_hidden_neighbours_of_n - 1 <= state - num_flagged_neighbours_of_n

_is_definite_mine(rows, x, y) ==
    \E n \in _adjacent_pos(x, y) :
        LET num_flagged_neighbours_of_n == _count_neighbours_state(rows, n[1], n[2], FLAG)
            num_hidden_neighbours_of_n == _count_neighbours_state(rows, n[1], n[2], HIDDEN)
            state == get(rows, n[1], n[2])
        IN  /\ state # None
            /\ state <= MaxCount
            /\ num_hidden_neighbours_of_n <= state - num_flagged_neighbours_of_n

\* Risks are fractions; they are held as whole numbers of the unit
\* 1 / RiskOne(g), which every risk of one decision is a multiple of: the
\* mean is over the 9 positions of _adjacent_pos, general_prob has the
\* denominator num_hidden - num_flags (halved off the board), and a revealed
\* neighbour divides by its 1 to 8 hidden neighbours.
HiddenLcm == 8 * 7 * 5 * 3
GeneralDen(g) == num_hidden(g.rows) - num_flags(g)
RiskOne(g) == Cardinality(_adjacent_pos(0, 0)) * 2 * HiddenLcm * GeneralDen(g)

RECURSIVE sum(_)
sum(probabilities) ==
    IF probabilities = <<>> THEN 0 ELSE Head(probabilities) + sum(Tail(probabilities))

\* prob_mine(ax, ay) of _calc_risk, times 2 * HiddenLcm * GeneralDen(g).
prob_mine(g, ax, ay) ==
    LET val == get(g.rows, ax, ay)
        general_num == g.num_mines - num_flags(g)
        hidden == _count_neighbours_state(g.rows, ax, ay, HIDDEN)
        flags == _count_neighbours_state(g.rows, ax, ay, FLAG)
    IN  IF val = None THEN general_num * HiddenLcm
        ELSE IF val > MaxCount THEN general_num * 2 * HiddenLcm
        ELSE (val - flags) * 2 * GeneralDen(g) * (HiddenLcm \div hidden)

\* CellRisk(risk, x, y)
CellRisk(risk, x, y) == [risk |-> risk, x |-> x, y |-> y]

_calc_risk(g, x, y) ==
    IF _is_definite_safe(g.rows, x, y) THEN CellRisk(0, x, y)
    ELSE IF _is_definite_mine(g.rows, x, y) THEN CellRisk(RiskOne(g), x, y)
    ELSE LET around == SetToSeq(_adjacent_pos(x, y))
             probabilities == [i \in 1 .. Len(around) |-> prob_mine(g, around[i][1], around[i][2])]
         IN  CellRisk(sum(probabilities), x, y)

\* `risk == 0.0` and `risk == 1.0` in _moves, where risk is the CellRisk
\* tuple _calc_risk returned and not its field risk: a tuple never equals a
\* float.
TupleEqualsFloat(cell_risk, value) == FALSE

\* _moves stopping at the first cell whose field risk is 0.0 or 1.0.
RECURSIVE _moves_comparing_the_risk_field(_, _)
_moves_comparing_the_risk_field(g, cells) ==
    IF cells = <<>> THEN <<>>
    ELSE LET risk == _calc_risk(g, Head(cells)[1], Head(cells)[2])
         IN  IF risk.risk = 0 \/ risk.risk = RiskOne(g) THEN <<risk>>
             ELSE <<risk>> \o _moves_comparing_the_risk_field(g, Tail(cells))

\* The risks the generator _moves yields, in order.
RECURSIVE _moves(_, _)
_moves(g, cells) ==
    IF cells = <<>> THEN <<>>
    ELSE LET risk == _calc_risk(g, Head(cells)[1], Head(cells)[2])
         IN  IF TupleEqualsFloat(risk, 0) \/ TupleEqualsFloat(risk, RiskOne(g)) THEN <<risk>>
             ELSE <<risk>> \o _moves(g, Tail(cells))

\* sorted(..., key=lambda r: r.risk) is stable: risks[0] is the first of the
\* least risks yielded and risks[-1] the last of the greatest.
best_reveal(moves) ==
    LET i == CHOOSE i \in 1 .. Len(moves) :
                 \A j \in 1 .. Len(moves) :
                     moves[i].risk < moves[j].risk \/ (moves[i].risk = moves[j].risk /\ i <= j)
    IN  moves[i]
best_flag(moves) ==
    LET i == CHOOSE i \in 1 .. Len(moves) :
                 \A j \in 1 .. Len(moves) :
                     moves[i].risk > moves[j].risk \/ (moves[i].risk = moves[j].risk /\ i >= j)
    IN  moves[i]

\* What one call of next gives: the command it returns, or the exception it
\* raises (StopIteration; IndexError for risks[0] of an empty list;
\* ZeroDivisionError for general_prob when num_hidden = num_flags).
Returned(command) == [raised |-> "", command |-> command]
Raised(exception) == [raised |-> exception, command |-> NoCommand]

next(g, games) ==
    IF game_over(g)
    THEN IF games >= NUM_GAMES THEN Raised("StopIteration")
         ELSE Returned([type |-> CmdType_NONE, x |-> 0, y |-> 0])
    ELSE LET cells == hidden_cells(g.rows)
             risks == _moves(g, cells)
         IN  IF GeneralDen(g) = 0
                /\ \E i \in 1 .. Len(cells) :
                       /\ ~_is_definite_safe(g.rows, cells[i][1], cells[i][2])
                       /\ ~_is_definite_mine(g.rows, cells[i][1], cells[i][2])
             THEN Raised("ZeroDivisionError")
             ELSE IF risks = <<>> THEN Raised("IndexError")
             ELSE IF best_flag(risks).risk >= RiskOne(g)
             THEN Returned([type |-> CmdType_TOGGLE_FLAG,
                            x |-> best_flag(risks).x, y |-> best_flag(risks).y])
             ELSE Returned([type |-> CmdType_REVEAL,
                            x |-> best_reveal(risks).x, y |-> best_reveal(risks).y])

\* ------------------------------------------------------------------ inputs
\* The direction bits a command carries: none, each single direction, two
\* opposite directions and two orthogonal ones.
DirMasks ==
    {0, CmdType_LEFT, CmdType_RIGHT, CmdType_UP, CmdType_DOWN,
     CmdType_LEFT + CmdType_RIGHT, CmdType_RIGHT + CmdType_DOWN}

\* A command has one kind (none/move, reveal or toggle-flag), as every producer
\* of commands builds it, combined with direction bits.
CmdTypes == {k + d : k \in {CmdType_NONE, CmdType_REVEAL, CmdType_TOGGLE_FLAG}, d \in DirMasks}

\* Carried positions: every board position and those one step outside.
CmdXs == -1 .. Width
CmdYs == -1 .. Height

Commands == {NoCommand} \cup [type : CmdTypes, x : CmdXs, y : CmdYs]

Difficulties == {DefaultDifficulty, HardDifficulty}

\* ----------------------------------------------------------- specification
SetGame(g) ==
    /\ _state' = g.state
    /\ _cursor_pos' = g.cursor_pos
    /\ _num_flags' = g.num_flags
    /\ _num_mines_flagged' = g.num_mines_flagged
    /\ _num_mines' = g.num_mines
    /\ _mines' = g.mines
    /\ _rows' = g.rows

\* MineSweeper(width, height, difficulty): __init__ ends with reset().
Init ==
    \E difficulty \in Difficulties :
        /\ difficulty \in 0 .. (1000 \div DIFFICULTY_STEP_MILLI)
        /\ _num_mines = NumMinesFor(difficulty)
        /\ _mines \in _create_mines(_num_mines)
        /\ _rows = [p \in Positions |-> HIDDEN]
        /\ _state = State_STARTING
        /\ _cursor_pos = <<0, 0>>
        /\ _num_flags = 0
        /\ _num_mines_flagged = 0
        /\ calls = 0
        /\ last_call = "construct"
        /\ reset_from = "never"
        /\ cmd = NoCommand
        /\ pc = "next"
        /\ num_games = 0

\* update(command), for every command of Commands.
Update ==
    /\ calls < MaxCalls
    /\ calls' = calls + 1
    /\ \E command \in Commands :
           LET after == update(Game, command)
           IN  SetGame(after) /\ last_call' = update_path(Game, command)
    /\ reset_from' = "never"
    /\ UNCHANGED <<cmd, pc, num_games>>

\* reset()
Reset ==
    /\ calls < MaxCalls
    /\ calls' = calls + 1
    /\ last_call' = "reset"
    /\ reset_from' = _state
    /\ \E mines \in _create_mines(_num_mines) : SetGame(reset(Game, mines))
    /\ UNCHANGED <<cmd, pc, num_games>>

Next == Update \/ Reset

Spec == Init /\ [][Next]_vars

\* The commands the producers in the sources build: map_key_to_command gives a
\* single key's type with the position it is handed (the live cursor), and the
\* AI gives REVEAL or TOGGLE_FLAG with the position of a board cell.
PlayCommands(g) ==
    {NoCommand}
    \cup [type : {CmdType_NONE, CmdType_LEFT, CmdType_RIGHT, CmdType_UP, CmdType_DOWN,
                  CmdType_REVEAL, CmdType_TOGGLE_FLAG},
          x : {g.cursor_pos[1]}, y : {g.cursor_pos[2]}]
    \cup [type : {CmdType_REVEAL, CmdType_TOGGLE_FLAG},
          x : 0 .. Width - 1, y : 0 .. Height - 1]

\* update(command), for the commands of PlayCommands.
UpdatePlay ==
    /\ calls < MaxCalls
    /\ calls' = calls + 1
    /\ \E command \in PlayCommands(Game) :
           LET after == update(Game, command)
           IN  SetGame(after) /\ last_call' = update_path(Game, command)
    /\ reset_from' = "never"
    /\ UNCHANGED <<cmd, pc, num_games>>

NextPlay == UpdatePlay \/ Reset

SpecPlay == Init /\ [][NextPlay]_vars

\* BoardState on its own: BoardState(height, width, mine_density) for every
\* density of [0, 1], which gives every number of mines from 1 to
\* width * height - 1, followed by calls of its methods set and reveal_from.
InitBoard ==
    /\ _num_mines \in 1 .. (Width * Height) - 1
    /\ _mines \in _create_mines(_num_mines)
    /\ _rows = [p \in Positions |-> HIDDEN]
    /\ _state = State_STARTING
    /\ _cursor_pos = <<0, 0>>
    /\ _num_flags = 0
    /\ _num_mines_flagged = 0
    /\ calls = 0
    /\ last_call = "construct"
    /\ reset_from = "never"
    /\ cmd = NoCommand
    /\ pc = "next"
    /\ num_games = 0

\* set(x, y, FLAG), the value the game writes into a covered cell.
BoardSetFlag ==
    /\ calls < MaxBoardCalls
    /\ calls' = calls + 1
    /\ last_call' = "set"
    /\ \E x \in CmdXs, y \in CmdYs : _rows' = set(_rows, x, y, FLAG)
    /\ UNCHANGED <<_state, _cursor_pos, _num_flags, _num_mines_flagged, _num_mines,
                   _mines, reset_from, cmd, pc, num_games>>

\* reveal_from(x, y), for every origin on the board and next to it.
BoardRevealFrom ==
    /\ calls < MaxBoardCalls
    /\ calls' = calls + 1
    /\ last_call' = "reveal_from"
    /\ \E x \in CmdXs, y \in CmdYs : _rows' = reveal_from(_rows, _mines, x, y)
    /\ UNCHANGED <<_state, _cursor_pos, _num_flags, _num_mines_flagged, _num_mines,
                   _mines, reset_from, cmd, pc, num_games>>

NextBoard == BoardSetFlag \/ BoardRevealFrom

SpecBoard == InitBoard /\ [][NextBoard]_vars

\* Autoplay: the loop hands the command MineSweeperAI.next returns to
\* MineSweeper.update, one after the other, until next raises.  (The loop is
\* renderer.start_loop, which is not among the sources at hand, and neither
\* is what counts num_games: it is taken to count the games that have ended.)
AINext ==
    /\ pc = "next"
    /\ LET result == next(Game, num_games)
       IN  IF result.raised = ""
           THEN cmd' = result.command /\ pc' = "update"
           ELSE cmd' = cmd /\ pc' = result.raised
    /\ UNCHANGED <<_state, _cursor_pos, _num_flags, _num_mines_flagged, _num_mines,
                   _mines, _rows, calls, last_call, reset_from, num_games>>

AIUpdate ==
    /\ pc = "update"
    /\ pc' = "next"
    /\ LET after == update(Game, cmd)
       IN  /\ SetGame(after)
           /\ last_call' = update_path(Game, cmd)
           /\ num_games' = IF game_over(after) /\ ~game_over(Game)
                           THEN num_games + 1 ELSE num_games
    /\ UNCHANGED <<calls, reset_from, cmd>>

NextAI == AINext \/ AIUpdate

\* MineSweeper(width, height, difficulty) for every difficulty main accepts,
\* 0 to 1 / DIFFICULTY_STEP, and the MineSweeperAI made for it.
InitAI ==
    \E difficulty \in 0 .. (1000 \div DIFFICULTY_STEP_MILLI) :
        /\ _num_mines = NumMinesFor(difficulty)
        /\ _mines \in _create_mines(_num_mines)
        /\ _rows = [p \in Positions |-> HIDDEN]
        /\ _state = State_STARTING
        /\ _cursor_pos = <<0, 0>>
        /\ _num_flags = 0
        /\ _num_mines_flagged = 0
        /\ calls = 0
        /\ last_call = "construct"
        /\ reset_from = "never"
        /\ cmd = NoCommand
        /\ pc = "next"
        /\ num_games = 0

SpecAI == InitAI /\ [][NextAI]_vars

\* The loop is sequential and never waits: while one of its two steps is due
\* it is taken.  A step is due exactly when pc is "next" or "update", and
\* every step changes pc, so the fairness is stated on pc.
LoopTurn ==
    /\ pc \in {"next", "update"}
    /\ pc' \in {"next", "update", "StopIteration", "IndexError", "ZeroDivisionError"} \ {pc}

SpecAIFair == SpecAI /\ WF_pc(LoopTurn)

\* ------------------------------------------------------------------ claims
\* The commands of Commands with the given bit set, and the cursor a command
\* leaves (update moves the cursor before it reveals or toggles).
CarriesBit(command, bit) == command # NoCommand /\ HasBit(command.type, bit)
WithBit(bit) == {c \in Commands : CarriesBit(c, bit)}
CursorAfter(command) == _handle_movement(Game, command).cursor_pos
Ignored(command) == command = NoCommand \/ command.type = CmdType_NONE
\* The commands of Commands that update ignores in Active.
IgnoredCommands == {NoCommand} \cup [type : {CmdType_NONE}, x : CmdXs, y : CmdYs]

\* C1: a win is only declared when every flag sits on a real mine: in
\* Victory every Flagged cell is a mine position.
C1_VictoryOnlyWithFlagsOnMines ==
    _state = State_VICTORY => \A p \in Positions : _rows[p] = FLAG => p \in _mines

\* C2: a ToggleFlag processed in Active only turns the cursor's cell from
\* Hidden to Flagged or from Flagged to Hidden; on a cell in any other state
\* it leaves the cell and both counters unchanged.
C2_ToggleOnlyHiddenOrFlagged ==
    _state = State_ACTIVE =>
        \A command \in WithBit(CmdType_TOGGLE_FLAG) :
            LET after == update(Game, command)
                cur == CursorAfter(command)
            IN  /\ \A p \in Positions :
                       after.rows[p] # _rows[p] =>
                           /\ p = cur
                           /\ \/ _rows[p] = HIDDEN /\ after.rows[p] = FLAG
                              \/ _rows[p] = FLAG /\ after.rows[p] = HIDDEN
                /\ _rows[cur] \notin {HIDDEN, FLAG} =>
                       /\ after.rows = _rows
                       /\ after.num_flags = _num_flags
                       /\ after.num_mines_flagged = _num_mines_flagged

\* C3: the game is in Victory exactly when minesFlagged equals the board's
\* mine count (so no Active state has all mines counted as flagged), and
\* Victory is entered only by a ToggleFlag processed in Active.
C3_VictoryIffAllMinesFlagged ==
    /\ [](_state = State_VICTORY <=> _num_mines_flagged = _num_mines)
    /\ [][(_state # State_VICTORY /\ _state' = State_VICTORY) =>
              /\ _state = State_ACTIVE
              /\ last_call' = "toggle"
              /\ _num_mines_flagged' = _num_mines']_vars

\* A win has been declared by a toggle that flagged the last mine.
C3_Witness ==
    /\ _state = State_VICTORY
    /\ last_call = "toggle"
    /\ _num_mines_flagged = _num_mines
    /\ \A p \in _mines : _rows[p] = FLAG

\* C4: Victory and Defeat are absorbing for update, and so is a None command
\* in Active: update with any command changes nothing of the game then.
C4_EndStatesAbsorbing ==
    LET g == Game
    IN  /\ game_over(g) => \A command \in Commands : update(g, command) = g
        /\ _state = State_ACTIVE => \A command \in IgnoredCommands : update(g, command) = g

\* update has been called on a game that was over.
C4_Witness == game_over(Game) /\ last_call = "ignored"

\* C5: the first update after construction or reset only moves Starting to
\* Active, whatever the command, and no update enters Starting again.
C5_FirstUpdateOnlyStarts ==
    /\ [][(_state = State_STARTING /\ last_call' # "reset") =>
              /\ _state' = State_ACTIVE
              /\ UNCHANGED <<_cursor_pos, _rows, _num_flags, _num_mines_flagged,
                             _num_mines, _mines>>]_vars
    /\ [][_state' = State_STARTING => (_state = State_STARTING \/ last_call' = "reset")]_vars

\* The start tick has been taken: the game is Active with an untouched board.
C5_Witness ==
    /\ last_call = "start"
    /\ _state = State_ACTIVE
    /\ \A p \in Positions : _rows[p] = HIDDEN

\* C6: a Reveal processed in Active acts only if the cell under the cursor, as
\* the cursor stands when the reveal step runs, is Hidden: otherwise no cell
\* changes and the game stays Active; if it is Hidden the game is lost when
\* the cursor is a mine position and the board becomes revealFrom(cursor)
\* otherwise.  This for every carried position.
C6_RevealActsOnCursorCell ==
    _state = State_ACTIVE =>
        \A command \in WithBit(CmdType_REVEAL) :
            LET after == update(Game, command)
                cur == CursorAfter(command)
            IN  IF _rows[cur] # HIDDEN
                THEN after.rows = _rows /\ after.state = State_ACTIVE
                ELSE IF cur \in _mines
                THEN after.state = State_DEFEAT
                ELSE /\ after.state = State_ACTIVE
                     /\ after.rows = reveal_from(_rows, _mines, cur[1], cur[2])

\* C7: Defeat is entered only by a Reveal acting on a mine position, in
\* Defeat every mine position's cell is Mine (flagged mines included), and no
\* other cell is ever Mine.
C7_DefeatRevealsAllMines ==
    /\ [](_state = State_DEFEAT => \A p \in _mines : _rows[p] = MINE)
    /\ [](\A p \in Positions \ _mines : _rows[p] # MINE)
    /\ [][(_state # State_DEFEAT /\ _state' = State_DEFEAT) =>
              /\ _state = State_ACTIVE
              /\ last_call' = "reveal"
              /\ _cursor_pos' \in _mines]_vars

\* The game was lost with a mine counted as flagged, all mines now shown.
C7_Witness ==
    /\ _state = State_DEFEAT
    /\ last_call = "reveal"
    /\ _num_mines = 2
    /\ _num_flags = 1
    /\ _num_mines_flagged = 1
    /\ \A p \in Positions : _rows[p] = (IF p \in _mines THEN MINE ELSE HIDDEN)

\* C8: while the game is not in Defeat every mine position's cell is Hidden
\* or Flagged: no reveal, flood-fill included, and no toggle writes Empty or
\* a count into a mine position.
C8_MinesStayCovered ==
    _state # State_DEFEAT => \A p \in _mines : _rows[p] \in {HIDDEN, FLAG}

\* A flood-fill has run next to a mine and a flag has been placed on a mine.
C8_Witness ==
    /\ _state = State_ACTIVE
    /\ \E p \in Positions : _rows[p] = EMPTY
    /\ \E p \in Positions : _rows[p] \in 1 .. 8
    /\ \E p \in _mines : _rows[p] = FLAG

\* C9: minesFlagged is the number of mine positions whose cell is Flagged.
C9_MinesFlaggedCountsFlaggedMines ==
    _num_mines_flagged = Cardinality({p \in _mines : _rows[p] = FLAG})

\* The two toggles of C10: ToggleFlag commands carrying the cell's position.
ToggleAt(p) == [type |-> CmdType_TOGGLE_FLAG, x |-> p[1], y |-> p[2]]
ToggledTwice(p) == update(update(Game, ToggleAt(p)), ToggleAt(p))

\* C10 as stated: in Active, two consecutive ToggleFlag commands on a Hidden
\* cell restore both counters and the cell and leave the game Active, also
\* when the cell is the last unflagged mine.
C10_ToggleTwiceRestores ==
    _state = State_ACTIVE =>
        \A p \in Positions :
            _rows[p] = HIDDEN =>
                /\ ToggledTwice(p).num_flags = _num_flags
                /\ ToggledTwice(p).num_mines_flagged = _num_mines_flagged
                /\ ToggledTwice(p).rows[p] = HIDDEN
                /\ ToggledTwice(p).state = State_ACTIVE

\* The first toggle on p wins the game: p is a mine and the one still missing
\* from minesFlagged.
WinsByFlagging(p) == p \in _mines /\ _num_mines_flagged + 1 = _num_mines

\* C10 amended: two consecutive ToggleFlag commands on a Hidden cell restore
\* counters, board and state unless the first one wins the game; when it does
\* the game is in Victory after the first and the second changes nothing.
C10_ToggleTwiceRestoresUnlessWon ==
    _state = State_ACTIVE =>
        \A p \in Positions :
            _rows[p] = HIDDEN =>
                LET once == update(Game, ToggleAt(p))
                    twice == update(once, ToggleAt(p))
                IN  IF WinsByFlagging(p)
                    THEN /\ once.state = State_VICTORY
                         /\ twice = once
                         /\ twice.rows[p] = FLAG
                    ELSE /\ once.rows[p] = FLAG
                         /\ once.num_flags = _num_flags + 1
                         /\ twice = [Game EXCEPT !.cursor_pos = p]

\* An Active game with a flag already placed, holding a Hidden mine whose flag
\* would win and a Hidden cell whose flag would not.
C10_Witness ==
    /\ _state = State_ACTIVE
    /\ last_call = "toggle"
    /\ _num_flags > 0
    /\ \E p \in _mines : _rows[p] = HIDDEN /\ WinsByFlagging(p)
    /\ \E p \in Positions \ _mines : _rows[p] = HIDDEN

\* The cells around p, p itself left out, and the mines among them.
Neighbours(p) ==
    {q \in Positions : q # p /\ q[1] - p[1] \in -1 .. 1 /\ q[2] - p[2] \in -1 .. 1}
MinesAround(p) == Cardinality(Neighbours(p) \cap _mines)

\* The reference flood region of an origin: what is reached from it by steps
\* to a neighbour that only ever leave cells with no mine around them.
RECURSIVE FloodClosure(_)
FloodClosure(R) ==
    LET more == R \cup {q \in Positions : \E p \in R : MinesAround(p) = 0 /\ q \in Neighbours(p)}
    IN  IF more = R THEN R ELSE FloodClosure(more)
FloodRegion(origin) == FloodClosure({origin})

\* C11: reveal_from at an in-bounds origin that is no mine reveals exactly the
\* reference flood region: each of its cells becomes EMPTY when no mine is
\* around it and the exact number of mines around it otherwise, and every
\* cell outside the region, every mine included, keeps its state.
C11_RevealFromRevealsFloodRegion ==
    \A origin \in Positions \ _mines :
        LET after == reveal_from(_rows, _mines, origin[1], origin[2])
            R == FloodRegion(origin)
        IN  /\ R \cap _mines = {}
            /\ \A p \in Positions :
                   after[p] = IF p \notin R THEN _rows[p]
                              ELSE IF MinesAround(p) = 0 THEN EMPTY
                              ELSE MinesAround(p)

\* A flood has run that opened cells with no mine around them, stopped at
\* cells with a count, and left a cell that is no mine covered.
C11_Witness ==
    /\ last_call = "reveal_from"
    /\ \E p \in Positions : _rows[p] = EMPTY
    /\ \E p \in Positions : _rows[p] \in 1 .. 8
    /\ \E p \in Positions \ _mines : _rows[p] = HIDDEN

\* C12: reveal_from is idempotent: for every board and every origin (a mine
\* and a position off the board included) a second call from the same origin
\* directly after the first changes no cell; and one call writes every
\* position at most once, writing nothing but what it visits.
C12_RevealFromIdempotent ==
    \A x \in CmdXs, y \in CmdYs :
        LET once == reveal_from(_rows, _mines, x, y)
            fills == reveal_fills(_mines, <<(<<x, y>>)>>, {})
        IN  /\ reveal_from(once, _mines, x, y) = once
            /\ \A i, j \in 1 .. Len(fills) : i # j => fills[i] # fills[j]
            /\ \A p \in Positions : once[p] # _rows[p] => \E i \in 1 .. Len(fills) : fills[i] = p

\* Two calls of reveal_from have been made on a board (no call of set came
\* between: no cell is Flagged), and the flood went through several cells.
C12_Witness ==
    /\ last_call = "reveal_from"
    /\ calls = 2
    /\ \A p \in Positions : _rows[p] # FLAG
    /\ Cardinality({p \in Positions : _rows[p] = EMPTY}) >= 2

\* C13: the cursor is on the board in every reachable state, whatever
\* positions (negative or beyond the board) and direction bits the commands
\* carry; and clamp_pos returns a position on the board for every pair of
\* integers a command and its deltas can give.
C13_CursorWithinBounds ==
    /\ _cursor_pos \in Positions
    /\ \A x \in -2 .. Width + 1, y \in -2 .. Height + 1 : clamp_pos(<<x, y>>) \in Positions

\* A command was processed that left the cursor in the far corner of the
\* board (the commands carry positions on the board and beyond it).
C13_Witness ==
    /\ last_call \in {"move", "reveal", "toggle"}
    /\ _cursor_pos = <<Width - 1, Height - 1>>

\* Every density MineSweeper hands to BoardState: DIFFICULTY_STEP * difficulty
\* within [0, 1], in thousandths.
DensitiesMilli == {DIFFICULTY_STEP_MILLI * d : d \in 0 .. (1000 \div DIFFICULTY_STEP_MILLI)}

\* floor(density * cells) for a density in thousandths: the largest n with
\* n <= density * cells.
FloorOfShare(density_milli, cells) ==
    CHOOSE n \in 0 .. cells : n * 1000 <= density_milli * cells /\ (n + 1) * 1000 > density_milli * cells

ConstructedGames(num_mines) ==
    {[state |-> State_STARTING, cursor_pos |-> <<0, 0>>, num_flags |-> 0,
      num_mines_flagged |-> 0, num_mines |-> num_mines, mines |-> mines,
      rows |-> [p \in Positions |-> HIDDEN]] : mines \in _create_mines(num_mines)}

\* C15: reset, called in any reachable state, returns the game to Starting
\* with every cell Hidden, both counters 0, the cursor at (0, 0) and a newly
\* drawn mine set of the same size: the game is then one that construction
\* gives, so what follows is what follows construction.
C15_ResetGivesFreshGame ==
    [][last_call' = "reset" =>
          /\ _state' = State_STARTING
          /\ \A p \in Positions : _rows'[p] = HIDDEN
          /\ _num_flags' = 0
          /\ _num_mines_flagged' = 0
          /\ _cursor_pos' = <<0, 0>>
          /\ Game' \in ConstructedGames(_num_mines)]_vars

\* reset has been called on a lost game, whose board showed its mines.
C15_Witness ==
    /\ last_call = "reset"
    /\ reset_from = State_DEFEAT

\* The boards that tell the truth about the mines: a mine is Hidden or
\* Flagged, and any other cell is Hidden or shows what reveal_from writes,
\* EMPTY or the number of mines around it.
TruthfulBoards ==
    {[p \in Positions |-> IF p \notin touched THEN HIDDEN
                          ELSE IF p \in _mines THEN FLAG
                          ELSE MinesAround(p)] : touched \in SUBSET Positions}

AIGameEnds == <>game_over(Game)

\* What the loop does once that game has ended: next returns
\* Command(NONE, 0, 0), update ignores it, and the game stays as it ended.
AIGameStaysOver ==
    [][game_over(Game) =>
          /\ game_over(Game')
          /\ num_games' = num_games
          /\ pc = "next" => pc' = "update" /\ cmd' = [type |-> CmdType_NONE, x |-> 0, y |-> 0]
          /\ pc = "update" => pc' = "next"]_vars

\* The sum of the deltas of the direction bits a command carries: Left is
\* x - 1, Right x + 1, Up y - 1 and Down y + 1.
Deltas(command) ==
    <<(IF CarriesBit(command, CmdType_RIGHT) THEN 1 ELSE 0)
        - (IF CarriesBit(command, CmdType_LEFT) THEN 1 ELSE 0),
      (IF CarriesBit(command, CmdType_DOWN) THEN 1 ELSE 0)
        - (IF CarriesBit(command, CmdType_UP) THEN 1 ELSE 0)>>

\* The value of 0 .. limit - 1 nearest to v, and the position on the board
\* nearest to <<x, y>>.
NearestBelow(v, limit) == IF v < 0 THEN 0 ELSE IF v > limit - 1 THEN limit - 1 ELSE v
Nearest(x, y) == <<NearestBelow(x, Width), NearestBelow(y, Height)>>

\* C18: for every command other than None that update processes in Active,
\* whatever else it carries, the new cursor is the carried position plus the
\* command's deltas, clamped to the board; the live cursor plays no part, so
\* a command without direction bits puts the cursor at the clamped carried
\* position and opposite directions cancel.  (Stated of the commands update
\* may be handed in each state a run goes on from.)
C18_CursorFromCarriedPosition ==
    _state = State_ACTIVE /\ calls < MaxCalls =>
        \A command \in Commands :
            ~Ignored(command) =>
                update(Game, command).cursor_pos
                    = Nearest(command.x + Deltas(command)[1], command.y + Deltas(command)[2])

\* A command that only moves was processed and left the cursor away from the
\* corner the game starts in.
C18_Witness ==
    /\ _state = State_ACTIVE
    /\ last_call = "move"
    /\ _cursor_pos[1] > 0
    /\ _cursor_pos[2] > 0

\* C19: before Defeat rewrites the mine cells, _num_flags is the number of
\* Flagged cells on the board, hence between 0 and width * height.
C19_FlagsPlacedCountsFlags ==
    _state # State_DEFEAT =>
        /\ _num_flags = Cardinality({p \in Positions : _rows[p] = FLAG})
        /\ 0 <= _num_flags
        /\ _num_flags <= Width * Height

\* A risk of exactly 0.0 or 1.0.
IsDefinite(cell_risk) == cell_risk.risk = 0 \/ cell_risk.risk = RiskOne(Game)

\* C20: in one decision the AI stops scoring the Hidden cells, taken row by
\* row, at the first whose risk is exactly 0.0 or 1.0: no cell after it is
\* scored, and the command is for that cell, REVEAL if its risk is 0.0 and
\* TOGGLE_FLAG if it is 1.0; when no cell is definite every one is scored and
\* the first of the least risks is revealed.
C20_AIStopsAtFirstDefiniteCell ==
    pc = "next" /\ ~game_over(Game) =>
        LET cells == hidden_cells(_rows)
            scored == _moves(Game, cells)
            last == scored[Len(scored)]
            command == next(Game, num_games).command
        IN  /\ \A i \in 1 .. Len(scored) - 1 : ~IsDefinite(scored[i])
            /\ IsDefinite(last) =>
                   /\ <<command.x, command.y>> = <<last.x, last.y>>
                   /\ command.type = IF last.risk = 0 THEN CmdType_REVEAL
                                      ELSE CmdType_TOGGLE_FLAG
            /\ ~IsDefinite(last) =>
                   /\ Len(scored) = Len(cells)
                   /\ command = [type |-> CmdType_REVEAL, x |-> best_reveal(scored).x,
                                 y |-> best_reveal(scored).y]

====
